---- MODULE Spec2Model ----
(***************************************************************************)
(* Model of the charter-party clause pipeline (charter_parser):            *)
(*   load_document -> discover_sections -> enumerate_clauses (bounded      *)
(*   retry) -> extract_clauses -> assemble.                                *)
(* The layout engine and the text oracle are external: their answers are   *)
(* drawn from small sets.  Python dicts are modelled as functions whose    *)
(* DOMAIN is the set of keys present; Python lists as sequences; None as   *)
(* the empty sequence where a value is optional.                           *)
(***************************************************************************)
EXTENDS Integers, Sequences, FiniteSets, TLC

\* ------------------------------------------------------------------ bounds
\* Longest element list the layout engine returns in a whole pipeline run.
MaxElems == 3
\* Longest element list handed to the segmenter when it is checked alone.
MaxSegElems == 4
\* Largest clause number the oracle mentions.
MaxNum == 2
\* Longest run of body text between two headers of a padded segmenter input.
MaxPad == 10

\* ------------------------------------------------------- program constants
MAX_ATTEMPTS == 3
\* _find_title_header looks back over at most this many elements.
TITLE_LOOKBACK == 10
\* A title header must be longer than this many characters.
MIN_TITLE_LEN == 5
\* A numbering restart needs curr_num <= this.
RESTART_MAX_NUM == 2

\* ------------------------------------------------------------ generic helpers
Range(s) == {s[i] : i \in 1..Len(s)}

SeqsUpTo(S, n) == UNION {[1..k -> S] : k \in 0..n}

Max(a, b) == IF a > b THEN a ELSE b

RECURSIVE SumLen(_, _)
\* Total number of elements in the first k entries of a sequence of sequences.
SumLen(ss, k) == IF k = 0 THEN 0 ELSE SumLen(ss, k - 1) + Len(ss[k])

RECURSIVE Flatten(_)
Flatten(ss) == IF ss = <<>> THEN <<>> ELSE Head(ss) \o Flatten(Tail(ss))

RECURSIVE Ascending(_)
\* sorted() of a set of integers
Ascending(S) == IF S = {} THEN <<>>
                ELSE LET m == CHOOSE x \in S : \A y \in S : x <= y
                     IN  <<m>> \o Ascending(S \ {m})

\* dict.get(key, default)
Get(d, k, default) == IF k \in DOMAIN d THEN d[k] ELSE default

\* d[k] = v on a dict
Put(d, k, v) == [x \in (DOMAIN d) \cup {k} |-> IF x = k THEN v ELSE d[x]]

EmptyDict == [x \in {} |-> <<>>]

\* --------------------------------------------------------- document elements
\* The texts an element can carry.  Each stands for a class of real texts; the
\* operators below give, for each, what the code computes from it.  The loader
\* strips every text it stores, so no element text has outer whitespace.
NumberedTexts == {"1. Owners", "2. Hire", "3. Cargo"}

\* Headers without a leading number and longer than 5 characters; the second is
\* a header that reads like the default title of the lead section.
TitleTexts == {"RIDER CLAUSES", "Main Clauses"}

\* A header without a leading number that is too short for a title.
ShortTexts == {"NOTES"}

\* _LEADING_NUMBER_RE / _extract_leading_number: <<n>> on a match, <<>> for None.
_extract_leading_number(text) ==
    CASE text = "1. Owners" -> <<1>>
      [] text = "2. Hire"   -> <<2>>
      [] text = "3. Cargo"  -> <<3>>
      [] OTHER              -> <<>>

\* len(text)
TextLen(text) ==
    CASE text = "1. Owners"     -> 9
      [] text = "2. Hire"       -> 7
      [] text = "3. Cargo"      -> 8
      [] text = "RIDER CLAUSES" -> 13
      [] text = " RIDER CLAUSES " -> 15
      [] text = "Main Clauses"  -> 12
      [] text = "NOTES"         -> 5
      [] text = "body text"     -> 9
      [] OTHER                  -> 0

\* str.strip()
Strip(text) == IF text = " RIDER CLAUSES " THEN "RIDER CLAUSES" ELSE text

Element(label, text, margin) ==
    [label |-> label, text |-> text, is_margin_note |-> margin]

\* Elements the segmenter is checked on.
SegElements ==
    {Element("SECTION_HEADER", t, FALSE) :
        t \in NumberedTexts \cup TitleTexts \cup ShortTexts}
    \cup {Element("SECTION_HEADER", "1. Owners", TRUE),
          Element("SECTION_HEADER", "RIDER CLAUSES", TRUE),
          Element("TEXT", "1. Owners", FALSE),
          Element("TEXT", "body text", FALSE)}

\* A run of n body-text elements.
Pad(n) == [i \in 1..n |-> Element("TEXT", "body text", FALSE)]

\* Long segmenter inputs: two numbered headers with one unnumbered header
\* between them, and runs of body text on either side of it.
PaddedDocs ==
    {<<Element("SECTION_HEADER", h1, FALSE)>> \o Pad(a) \o <<t>> \o Pad(b)
        \o <<Element("SECTION_HEADER", h2, FALSE)>> :
        h1 \in NumberedTexts, h2 \in NumberedTexts,
        t \in {Element("SECTION_HEADER", "RIDER CLAUSES", FALSE),
               Element("SECTION_HEADER", "RIDER CLAUSES", TRUE),
               Element("SECTION_HEADER", "NOTES", FALSE)},
        a \in 0..MaxPad, b \in 0..MaxPad}

\* Elements of the documents a whole pipeline run is checked on.
PipelineElements ==
    {Element("SECTION_HEADER", t, FALSE) :
        t \in {"1. Owners", "3. Cargo"} \cup TitleTexts}

\* ------------------------------------------------------------- sectioner.py
\* _elements_to_text: the parts that "\n\n".join() glues, kept as a list.
_elements_to_text(els) ==
    LET keep(el) == /\ ~el.is_margin_note
                    /\ el.label \in {"TEXT", "LIST_ITEM", "SECTION_HEADER"}
                    /\ TextLen(Strip(el.text)) > 0
    IN  [k \in 1..Len(SelectSeq(els, keep)) |-> Strip(SelectSeq(els, keep)[k].text)]

\* Whether element i (0-based) qualifies as a section title.
IsTitleHeader(els, i) ==
    /\ ~els[i + 1].is_margin_note
    /\ els[i + 1].label = "SECTION_HEADER"
    /\ _extract_leading_number(els[i + 1].text) = <<>>
    /\ TextLen(els[i + 1].text) > MIN_TITLE_LEN

\* _find_title_header: the first qualifying index scanning
\* range(before_idx, max(after_idx, before_idx - 10), -1); <<>> for None,
\* else <<title, idx>>.  Indices are 0-based as in the code.
_find_title_header(els, before_idx, after_idx) ==
    LET lo   == Max(after_idx, before_idx - TITLE_LOOKBACK)
        hits == {i \in (lo + 1)..before_idx : IsTitleHeader(els, i)}
    IN  IF hits = {} THEN <<>>
        ELSE LET i == CHOOSE h \in hits : \A g \in hits : g <= h
             IN  <<Strip(els[i + 1].text), i>>

\* numbered_headers: the (index, number) pairs of non-margin numbered headers.
NumberedHeaders(els) ==
    LET isNum(i) == /\ els[i + 1].label = "SECTION_HEADER"
                    /\ ~els[i + 1].is_margin_note
                    /\ _extract_leading_number(els[i + 1].text) # <<>>
        idxs == {i \in 0..(Len(els) - 1) : isNum(i)}
        order == Ascending(idxs)
    IN  [k \in 1..Len(order) |->
            <<order[k], _extract_leading_number(els[order[k] + 1].text)[1]>>]

\* The restart test with the comparison of the two numbers relaxed: equal
\* numbers restart too.
IsRestart_or_equal(prev_num, curr_num) ==
    ~(curr_num > RESTART_MAX_NUM \/ prev_num < curr_num)

\* The restart test of discover_sections (the negation of its `continue`).
IsRestart(prev_num, curr_num) ==
    ~(curr_num > RESTART_MAX_NUM \/ prev_num <= curr_num)

\* boundaries: the (title, title_idx) pairs of accepted restarts, in order.
Boundaries(els) ==
    LET nh == NumberedHeaders(els)
        RECURSIVE Scan(_)
        Scan(j) ==
            IF j > Len(nh) THEN <<>>
            ELSE LET found == _find_title_header(els, nh[j][1] - 1, nh[j - 1][1])
                 IN  IF IsRestart(nh[j - 1][2], nh[j][2]) /\ found # <<>>
                     THEN <<found>> \o Scan(j + 1)
                     ELSE Scan(j + 1)
    IN  IF Len(nh) < 2 THEN <<>> ELSE Scan(2)

\* SectionData(title=..., index=..., elements=..., text=...): the four keys the
\* segmenter sets, and no others.
SectionData(title, index, els) ==
    [title |-> title, index |-> index, elements |-> els,
     text |-> _elements_to_text(els)]

\* A slice that starts one element late.
Slice_late(els, a, b) == SubSeq(els, a + 2, b)

\* elements[a:b] with 0-based, end-exclusive Python slicing.
Slice(els, a, b) == SubSeq(els, a + 1, b)

\* discover_sections: the list of sections for an element list.
Sections(els) ==
    LET bs == Boundaries(els)
        body == Slice(els, 0, bs[1][2])
        rest == [k \in 1..Len(bs) |->
                    SectionData(bs[k][1], k,
                        Slice(els, bs[k][2],
                              IF k + 1 <= Len(bs) THEN bs[k + 1][2] ELSE Len(els)))]
    IN  IF els = <<>> THEN <<>>
        ELSE IF bs = <<>> THEN <<SectionData("Main Clauses", 0, els)>>
        ELSE (IF body # <<>> THEN <<SectionData("Main Clauses", 0, body)>> ELSE <<>>)
             \o rest

\* ------------------------------------------------------------ enumerator.py
\* An answer of the enumeration oracle as _call_llm sees it: the call raises
\* (network error, json.loads failure), or json.loads returns a list; `ints`
\* is FALSE when some item of the list is not an integer.
NumberLists == {<<>>} \cup {<<a>> : a \in 1..MaxNum}
               \cup {<<a, b>> : a \in 1..MaxNum, b \in 1..MaxNum}

EnumResponses ==
    {[kind |-> "raise"]}
    \cup {[kind |-> "json", numbers |-> ns, ints |-> TRUE] : ns \in NumberLists}
    \cup {[kind |-> "json", numbers |-> <<1>>, ints |-> FALSE]}

\* _validate: <<>> for None, else <<message>>.
_validate(r) ==
    IF r.numbers = <<>> THEN <<"Empty list">>
    ELSE IF ~r.ints THEN <<"Non-integer values">>
    ELSE IF r.numbers # Ascending(Range(r.numbers))
         THEN <<"Not monotonically increasing or has duplicates">>
    ELSE <<>>

\* The stored list when the result of _validate is ignored.
EnumNumbers_unvalidated(r) == IF r.kind = "raise" THEN <<>> ELSE r.numbers

\* The list one loop iteration of enumerate_clauses stores for its section.
EnumNumbers(r) ==
    IF r.kind = "raise" THEN <<>>
    ELSE IF _validate(r) # <<>> THEN <<>> ELSE r.numbers

\* The messages one loop iteration appends to errors (none or one).
EnumErrors(title, r) ==
    IF r.kind = "raise"
    THEN <<[title |-> title, what |-> "Enumeration failed", detail |-> "exc"]>>
    ELSE IF _validate(r) # <<>>
    THEN <<[title |-> title, what |-> "Enumeration invalid", detail |-> _validate(r)[1]]>>
    ELSE <<>>

\* A merging update: a title keeps its earlier list when the run stored none.
UpdatedIndex_merged(old_index, run_index) ==
    [t \in (DOMAIN old_index) \cup (DOMAIN run_index) |->
        IF t \in DOMAIN run_index /\ run_index[t] # <<>> THEN run_index[t]
        ELSE Get(old_index, t, <<>>)]

\* state.update(enumerate_clauses(state)) on the "clause_index" key: the run's
\* dict replaces the one in the state.
UpdatedIndex(old_index, run_index) == run_index

\* should_retry with the attempt test off by one (<= for <).
should_retry_off_by_one(attempts, index) ==
    LET has_empty == \E t \in DOMAIN index : Len(index[t]) = 0
    IN  has_empty /\ attempts <= MAX_ATTEMPTS

\* should_retry
should_retry(attempts, index) ==
    LET has_empty == \E t \in DOMAIN index : Len(index[t]) = 0
    IN  has_empty /\ attempts < MAX_ATTEMPTS

\* ------------------------------------------------------------- extractor.py
\* An answer of the extraction oracle for one clause number: the call raises or
\* the text does not parse, or json.loads returns a record whose number and
\* body are the oracle's own.
Bodies == {"", "  ", " text "}

ExtractResponses ==
    {[kind |-> "raise"]}
    \cup {[kind |-> "json",
           data |-> [number |-> n, title |-> "Owners", agreed_text |-> b]] :
          n \in 1..MaxNum, b \in Bodies}

\* The keys the try branch of _extract_single reads from its section.
ExtractKeys == {"title", "text", "prefix", "index", "page_start", "page_end"}

\* The keys read by the except branch of _extract_single.
HandlerKeys == {"prefix", "title", "index", "page_start", "page_end"}

\* The record the except branch of _extract_single returns.
StubClause(section, number) ==
    [id |-> <<section.prefix, number>>, number |-> number,
     title |-> <<"Clause", number>>, agreed_text |-> "",
     section |-> section.title, section_index |-> section.index,
     page_range |-> <<section.page_start, section.page_end>>,
     error |-> "exc"]

\* The record the try branch of _extract_single returns: the oracle's record
\* with id, section, section_index and page_range set on it.
ParsedClause(section, number, data) ==
    [id |-> <<section.prefix, number>>, number |-> data.number,
     title |-> data.title, agreed_text |-> data.agreed_text,
     section |-> section.title, section_index |-> section.index,
     page_range |-> <<section.page_start, section.page_end>>]

\* _extract_single: [raised |-> TRUE] when an exception leaves the coroutine,
\* else [raised |-> FALSE, value |-> the record returned].  A KeyError raised in
\* the try branch is caught by `except Exception`; one raised while the except
\* branch evaluates its own arguments is not caught by anything.
_extract_single(section, number, r) ==
    LET tryRaises == \/ r.kind = "raise"
                     \/ ~(ExtractKeys \subseteq DOMAIN section)
        handlerRaises == ~(HandlerKeys \subseteq DOMAIN section)
    IN  IF ~tryRaises
        THEN [raised |-> FALSE, value |-> ParsedClause(section, number, r.data)]
        ELSE IF handlerRaises THEN [raised |-> TRUE]
        ELSE [raised |-> FALSE, value |-> StubClause(section, number)]

\* Results handed back in the order the calls completed (asyncio.as_completed).
GatherResults_as_completed(slots, order) ==
    [j \in 1..Len(order) |-> slots[order[j]][2].value]

\* list(await asyncio.gather(*tasks)): the results in the order of the tasks,
\* whatever the order in which they completed.
GatherResults(slots, order) ==
    [j \in 1..Len(slots) |-> slots[j][2].value]

\* ------------------------------------------------------------- assembler.py
\* str.strip() of a clause body
StripBody(b) == CASE b = "  " -> "" [] b = " text " -> "text" [] OTHER -> b

Digit(d) == CASE d = 0 -> "0" [] d = 1 -> "1" [] d = 2 -> "2" [] d = 3 -> "3"
              [] d = 4 -> "4" [] d = 5 -> "5" [] d = 6 -> "6" [] d = 7 -> "7"
              [] d = 8 -> "8" [] d = 9 -> "9"

RECURSIVE Str(_)
\* str(n) for n >= 0, as the list of its decimal digits
Str(n) == IF n < 10 THEN <<Digit(n)>> ELSE Str(n \div 10) \o <<Digit(n % 10)>>

\* The sort key of assemble: (section_index, number), each defaulting to 0.
SortKey(c) == <<Get(c, "section_index", 0), Get(c, "number", 0)>>

KeyLess(a, b) == a[1] < b[1] \/ (a[1] = b[1] /\ a[2] < b[2])

RECURSIVE Sorted(_)
\* sorted(raw_clauses, key=SortKey): stable, ascending
Sorted(cs) ==
    IF cs = <<>> THEN <<>>
    ELSE LET rest == Sorted(SubSeq(cs, 1, Len(cs) - 1))
             c == cs[Len(cs)]
             \* c goes after every element whose key is <= its own
             n == Cardinality({i \in 1..Len(rest) : ~KeyLess(SortKey(c), SortKey(rest[i]))})
         IN  SubSeq(rest, 1, n) \o <<c>> \o SubSeq(rest, n + 1, Len(rest))

\* The keep test without the strip().
Kept_unstripped(raw) == Get(raw, "agreed_text", "") # ""

\* Whether assemble keeps a raw clause.
Kept(raw) == StripBody(Get(raw, "agreed_text", "")) # ""

\* The final record assemble emits for a raw clause it keeps.
FinalClause(raw) ==
    [id |-> IF "number" \in DOMAIN raw THEN Str(raw.number) ELSE <<>>,
     title |-> Get(raw, "title", ""),
     text |-> StripBody(Get(raw, "agreed_text", ""))]

\* assemble: the list of final clauses for a list of raw clauses
assemble(raw_list) ==
    LET kept == SelectSeq(Sorted(raw_list), Kept)
    IN  [k \in 1..Len(kept) |-> FinalClause(kept[k])]

\* The raw clauses behind the entries of assemble's output, in output order.
AssembledFrom(raw_list) == SelectSeq(Sorted(raw_list), Kept)

\* ============================================================ state machine
VARIABLES
    pc,                   \* where run_pipeline (or the stage under test) stands
    elements,             \* state["elements"]
    sections,             \* state["sections"]
    enumeration_attempts, \* state["enumeration_attempts"]
    clause_index,         \* state["clause_index"]
    errors,               \* state["errors"]
    raw_clauses,          \* state["raw_clauses"]
    clauses,              \* state["clauses"]
    e_i,                  \* enumerate_clauses: sections handled in this run
    e_index,              \* enumerate_clauses: local clause_index
    e_errors,             \* enumerate_clauses: local errors
    e_numbers,            \* enumerate_clauses: the list stored per section, in section order
    e_response,           \* enumerate_clauses: <<oracle answer>> of the iteration just run, else <<>>
    prev_index,           \* state["clause_index"] as it was before the last state.update
    run_log,              \* per finished run: did it log an enumeration error
    x_i,                  \* extract_clauses: sections handled
    all_clauses,          \* extract_clauses: local all_clauses
    x_running,            \* extract_clauses: a gather is in flight
    x_slots,              \* _extract_section: per task, <<>> (pending) or <<response, result>>
    x_order,              \* _extract_section: the tasks of the last gather, in completion order
    x_answers             \* per finished gather: <<section position, oracle answers in task order>>

vars == <<pc, elements, sections, enumeration_attempts, clause_index, errors,
          raw_clauses, clauses, e_i, e_index, e_errors, e_numbers, e_response,
          prev_index, run_log,
          x_i, all_clauses, x_running, x_slots, x_order, x_answers>>

pipeVars == <<elements, sections, enumeration_attempts, clause_index, errors,
              raw_clauses, clauses>>

enumVars == <<e_i, e_index, e_errors, e_numbers, e_response>>

extractVars == <<x_i, all_clauses, x_running, x_slots, x_order, x_answers>>

\* run_pipeline's initial state dict, before load_document.
Init ==
    /\ pc = "load"
    /\ elements = <<>>
    /\ sections = <<>>
    /\ enumeration_attempts = 0
    /\ clause_index = EmptyDict
    /\ errors = <<>>
    /\ raw_clauses = <<>>
    /\ clauses = <<>>
    /\ e_i = 0
    /\ e_index = EmptyDict
    /\ e_errors = <<>>
    /\ e_numbers = <<>>
    /\ e_response = <<>>
    /\ prev_index = EmptyDict
    /\ run_log = <<>>
    /\ x_i = 0
    /\ all_clauses = <<>>
    /\ x_running = FALSE
    /\ x_slots = <<>>
    /\ x_order = <<>>
    /\ x_answers = <<>>

\* state.update(load_document(state)): the layout engine's element list.
LoadFrom(docs) ==
    /\ pc = "load"
    /\ elements' \in docs
    /\ pc' = "discover"
    /\ UNCHANGED <<sections, enumeration_attempts, clause_index, errors,
                   raw_clauses, clauses, run_log, prev_index>>
    /\ UNCHANGED enumVars
    /\ UNCHANGED extractVars

LoadDocument == LoadFrom(SeqsUpTo(PipelineElements, MaxElems))

LoadSegmenterInput ==
    LoadFrom(SeqsUpTo(SegElements, MaxSegElems) \cup PaddedDocs)

\* state.update(discover_sections(state))
DiscoverSections ==
    /\ pc = "discover"
    /\ sections' = Sections(elements)
    /\ pc' = "enumerate"
    /\ UNCHANGED <<elements, enumeration_attempts, clause_index, errors,
                   raw_clauses, clauses, run_log, prev_index>>
    /\ UNCHANGED enumVars
    /\ UNCHANGED extractVars

\* enumerate_clauses, entry: fresh locals for this run.
EnumerateEnter ==
    /\ pc = "enumerate"
    /\ e_i' = 0
    /\ e_index' = EmptyDict
    /\ e_errors' = <<>>
    /\ e_numbers' = <<>>
    /\ e_response' = <<>>
    /\ pc' = "enum_loop"
    /\ UNCHANGED pipeVars
    /\ UNCHANGED <<run_log, prev_index>>
    /\ UNCHANGED extractVars

\* enumerate_clauses, one loop iteration: query the oracle for the next section
\* and store its list (or an empty list and an error) under the section's title.
EnumerateSection ==
    /\ pc = "enum_loop"
    /\ e_i < Len(sections)
    /\ \E r \in EnumResponses :
         LET section == sections[e_i + 1]
         IN  /\ e_index' = Put(e_index, section.title, EnumNumbers(r))
             /\ e_errors' = e_errors \o EnumErrors(section.title, r)
             /\ e_numbers' = Append(e_numbers, EnumNumbers(r))
             /\ e_response' = <<r>>
    /\ e_i' = e_i + 1
    /\ UNCHANGED pc
    /\ UNCHANGED pipeVars
    /\ UNCHANGED <<run_log, prev_index>>
    /\ UNCHANGED extractVars

\* enumerate_clauses, return, and run_pipeline's state.update of its result.
EnumerateReturn ==
    /\ pc = "enum_loop"
    /\ e_i = Len(sections)
    /\ clause_index' = UpdatedIndex(clause_index, e_index)
    /\ prev_index' = clause_index
    /\ enumeration_attempts' = enumeration_attempts + 1
    /\ errors' = e_errors
    /\ run_log' = Append(run_log, e_errors # <<>>)
    /\ e_response' = <<>>
    /\ pc' = "should_retry"
    /\ UNCHANGED <<elements, sections, raw_clauses, clauses>>
    /\ UNCHANGED <<e_i, e_index, e_errors, e_numbers>>
    /\ UNCHANGED extractVars

\* run_pipeline: `if not should_retry(state): break`
ShouldRetry ==
    /\ pc = "should_retry"
    /\ pc' = IF should_retry(enumeration_attempts, clause_index)
             THEN "enumerate" ELSE "extract"
    /\ UNCHANGED pipeVars
    /\ UNCHANGED enumVars
    /\ UNCHANGED <<run_log, prev_index>>
    /\ UNCHANGED extractVars

\* extract_clauses, top of the loop over sections: return when all are done,
\* skip a section without numbers, else issue one call per number (gather).
ExtractNextSection ==
    /\ pc = "extract"
    /\ ~x_running
    /\ IF x_i = Len(sections)
       THEN /\ raw_clauses' = all_clauses
            /\ pc' = "assemble"
            /\ UNCHANGED extractVars
       ELSE LET numbers == Get(clause_index, sections[x_i + 1].title, <<>>)
            IN  /\ IF numbers = <<>>
                   THEN /\ x_i' = x_i + 1
                        /\ UNCHANGED <<x_running, x_slots, x_order>>
                   ELSE /\ x_running' = TRUE
                        /\ x_slots' = [k \in 1..Len(numbers) |-> <<>>]
                        /\ x_order' = <<>>
                        /\ UNCHANGED x_i
                /\ UNCHANGED x_answers
                /\ UNCHANGED <<pc, raw_clauses, all_clauses>>
    /\ UNCHANGED <<elements, sections, enumeration_attempts, clause_index,
                   errors, clauses, run_log, prev_index>>
    /\ UNCHANGED enumVars

\* One pending call of the gather gets its oracle answer and finishes.  An
\* exception leaving the call leaves gather, asyncio.run, extract_clauses and
\* run_pipeline; when the last call finishes, its section's results are appended
\* to all_clauses in task order and the loop moves on.
CompleteCall ==
    /\ pc = "extract"
    /\ x_running
    /\ \E k \in 1..Len(x_slots) : \E r \in ExtractResponses :
         /\ x_slots[k] = <<>>
         /\ LET section == sections[x_i + 1]
                number == clause_index[section.title][k]
                out == _extract_single(section, number, r)
                slots == [x_slots EXCEPT ![k] = <<r, out>>]
                order == Append(x_order, k)
            IN  /\ x_slots' = slots
                /\ x_order' = order
                /\ IF out.raised
                   THEN /\ pc' = "failed"
                        /\ UNCHANGED <<x_i, all_clauses, x_running, x_answers>>
                   ELSE IF \A j \in 1..Len(slots) : slots[j] # <<>>
                   THEN /\ all_clauses' = all_clauses \o GatherResults(slots, order)
                        /\ x_answers' = Append(x_answers,
                               <<x_i + 1, [j \in 1..Len(slots) |-> slots[j][1]]>>)
                        /\ x_i' = x_i + 1
                        /\ x_running' = FALSE
                        /\ UNCHANGED pc
                   ELSE UNCHANGED <<pc, x_i, all_clauses, x_running, x_answers>>
    /\ UNCHANGED pipeVars
    /\ UNCHANGED enumVars
    /\ UNCHANGED <<run_log, prev_index>>

\* state.update(assemble(state)); run_pipeline returns.
Assemble ==
    /\ pc = "assemble"
    /\ clauses' = assemble(raw_clauses)
    /\ pc' = "done"
    /\ UNCHANGED <<elements, sections, enumeration_attempts, clause_index,
                   errors, raw_clauses, run_log, prev_index>>
    /\ UNCHANGED enumVars
    /\ UNCHANGED extractVars

Next ==
    \/ LoadDocument
    \/ DiscoverSections
    \/ EnumerateEnter
    \/ EnumerateSection
    \/ EnumerateReturn
    \/ ShouldRetry
    \/ ExtractNextSection
    \/ CompleteCall
    \/ Assemble

\* A whole run of run_pipeline.
Spec == Init /\ [][Next]_vars

\* --------------------------------------------- the segmenter checked alone
NextSegmenter ==
    \/ LoadSegmenterInput
    \/ DiscoverSections

SpecSegmenter == Init /\ [][NextSegmenter]_vars

\* ------------------------- extract_clauses and assemble on SectionData input
\* A section carrying every key state.SectionData declares.
TypedSection(title, prefix, index) ==
    [title |-> title, prefix |-> prefix, index |-> index,
     elements |-> <<Element("SECTION_HEADER", "1. Owners", FALSE)>>,
     text |-> <<"1. Owners">>, page_start |-> index + 1, page_end |-> index + 1]

TypedTitles == {<<"Main Clauses", "MAIN">>, <<"RIDER CLAUSES", "RIDER">>}

\* Section lists of one or two sections, indexed 0, 1 in order.
TypedSectionLists ==
    {<<TypedSection(a[1], a[2], 0)>> : a \in TypedTitles}
    \cup {<<TypedSection(a[1], a[2], 0), TypedSection(b[1], b[2], 1)>> :
            a \in TypedTitles, b \in TypedTitles}

\* The lists enumerate_clauses can store: empty, or validated.
StoredLists ==
    {ns \in NumberLists :
        EnumNumbers([kind |-> "json", numbers |-> ns, ints |-> TRUE]) = ns}

\* The state dict handed to extract_clauses: sections and a clause index over
\* their titles.
InitStage ==
    /\ pc = "extract"
    /\ elements = <<>>
    /\ sections \in TypedSectionLists
    /\ enumeration_attempts = 0
    /\ clause_index \in [{sections[k].title : k \in 1..Len(sections)} -> StoredLists]
    /\ errors = <<>>
    /\ raw_clauses = <<>>
    /\ clauses = <<>>
    /\ e_i = 0
    /\ e_index = EmptyDict
    /\ e_errors = <<>>
    /\ e_numbers = <<>>
    /\ e_response = <<>>
    /\ prev_index = EmptyDict
    /\ run_log = <<>>
    /\ x_i = 0
    /\ all_clauses = <<>>
    /\ x_running = FALSE
    /\ x_slots = <<>>
    /\ x_order = <<>>
    /\ x_answers = <<>>

NextStage ==
    \/ ExtractNextSection
    \/ CompleteCall
    \/ Assemble

SpecStage == InitStage /\ [][NextStage]_vars

\* ================================================================== claims
SectionTitles == {sections[k].title : k \in 1..Len(sections)}

AfterEnumeration == {"should_retry", "extract", "assemble", "done", "failed"}

\* A list that is not a non-empty, strictly increasing list of integers.
InvalidAnswer(r) ==
    \/ r.kind = "raise"
    \/ r.numbers = <<>>
    \/ ~r.ints
    \/ \E i \in 1..Len(r.numbers) : \E j \in 1..Len(r.numbers) :
          i < j /\ r.numbers[i] >= r.numbers[j]

IsBlank(b) == b = "" \/ b = "  "

\* C1: every extraction call whose oracle answer is an error comes back as a
\* stub RawClause (title "Clause {number}", empty body, error set); it does not
\* raise, so the section and the pipeline run do not fail.
C1_ExtractionErrorBecomesStub ==
    \A k \in 1..Len(x_slots) :
        (x_slots[k] # <<>> /\ x_slots[k][1].kind = "raise") =>
            /\ pc # "failed"
            /\ ~x_slots[k][2].raised
            /\ x_slots[k][2].value.title = <<"Clause", x_slots[k][2].value.number>>
            /\ x_slots[k][2].value.id[2] = x_slots[k][2].value.number
            /\ x_slots[k][2].value.agreed_text = ""
            /\ "error" \in DOMAIN x_slots[k][2].value

\* C2: when a run of the enumeration stage ends, the stage is run again if some
\* section of that run produced an empty list and fewer than 3 runs were made,
\* and it is not run again if no section produced an empty list.
C2_RetryIffSomeSectionEmpty ==
    [][pc = "should_retry" =>
        LET someEmpty == \E k \in 1..Len(e_numbers) : e_numbers[k] = <<>>
        IN  /\ (someEmpty /\ enumeration_attempts < 3) => pc' = "enumerate"
            /\ ~someEmpty => pc' = "extract"]_vars

\* C3: the enumeration stage runs at most 3 times, and after the third run the
\* pipeline goes on to extraction with the clause index unchanged, whatever
\* sections are still empty.
C3_AtMostThreeRuns ==
    [][/\ enumeration_attempts' <= 3
       /\ (pc = "should_retry" /\ enumeration_attempts = 3) =>
             (pc' = "extract" /\ clause_index' = clause_index)]_vars

C3_Witness ==
    /\ pc = "extract"
    /\ enumeration_attempts = 3
    /\ \E t \in DOMAIN clause_index : clause_index[t] = <<>>

\* C4: after a run of the enumeration stage, and so when extraction starts, the
\* clause index holds exactly what the last run stored: its keys are the
\* section titles and each title maps to the list the last run stored for the
\* last section of that title; nothing of an earlier run is kept.
C4_IndexIsLastRun ==
    pc \in AfterEnumeration =>
        /\ DOMAIN clause_index = SectionTitles
        /\ Len(e_numbers) = Len(sections)
        /\ \A k \in 1..Len(sections) :
              (\A j \in (k + 1)..Len(sections) : sections[j].title # sections[k].title)
                 => clause_index[sections[k].title] = e_numbers[k]

C4_Witness ==
    /\ pc = "extract"
    /\ \E t \in DOMAIN clause_index :
          /\ clause_index[t] = <<>>
          /\ t \in DOMAIN prev_index
          /\ prev_index[t] # <<>>

\* C5: in a run of the enumeration stage, the iteration for a section whose
\* oracle call fails or whose answer does not validate stores an empty list
\* under the section's title and appends one error for it; the iteration for a
\* valid answer stores that answer and appends no error; no iteration leaves
\* the stage, and the run ends only after every section was queried.
C5_FailedSectionRecordedEmpty ==
    [][/\ (pc = "enum_loop" /\ e_i' = e_i + 1) =>
            LET r == e_response'[1]
                t == sections[e_i + 1].title
            IN  /\ pc' = "enum_loop"
                /\ Len(e_numbers') = e_i'
                /\ IF InvalidAnswer(r)
                   THEN /\ e_index'[t] = <<>>
                        /\ e_numbers'[e_i'] = <<>>
                        /\ Len(e_errors') = Len(e_errors) + 1
                        /\ SubSeq(e_errors', 1, Len(e_errors)) = e_errors
                        /\ e_errors'[Len(e_errors')].title = t
                   ELSE /\ e_index'[t] = r.numbers
                        /\ e_numbers'[e_i'] = r.numbers
                        /\ e_errors' = e_errors
       /\ (pc = "enum_loop" /\ pc' # "enum_loop") =>
            /\ pc' = "should_retry"
            /\ e_i = Len(sections)]_vars

C5_Witness ==
    /\ pc = "enum_loop"
    /\ e_i = 2
    /\ sections[1].title # sections[2].title
    /\ e_numbers[1] = <<>>
    /\ e_numbers[2] # <<>>
    /\ Len(e_errors) = 1
    /\ e_index[sections[1].title] = <<>>
    /\ e_index[sections[2].title] = e_numbers[2]

\* C6: the final clause list is strictly sorted by (sectionIndex, number), and
\* no two of its clauses that come from the same section have the same id.
C6_OutputStrictlySortedUniqueIds ==
    pc = "done" =>
        LET src == AssembledFrom(raw_clauses)
        IN  /\ Len(src) = Len(clauses)
            /\ \A i \in 1..Len(src) : \A j \in 1..Len(src) :
                  i < j =>
                    /\ \/ src[i].section_index < src[j].section_index
                       \/ /\ src[i].section_index = src[j].section_index
                          /\ src[i].number < src[j].number
                    /\ src[i].section_index = src[j].section_index
                          => clauses[i].id # clauses[j].id

\* C7: when extraction has finished, raw_clauses holds exactly one entry per
\* (section, number) pair, number ranging over the list the last enumeration
\* run produced for that same section, in section order.
C7_OneRawClausePerEnumeratedPair ==
    pc \in {"assemble", "done"} =>
        [i \in 1..Len(raw_clauses) |->
            <<raw_clauses[i].section_index, raw_clauses[i].id[2]>>]
        = Flatten([k \in 1..Len(sections) |->
                    [j \in 1..Len(e_numbers[k]) |->
                        <<sections[k].index, e_numbers[k][j]>>]])

\* C8: the sections built by discover_sections are non-empty contiguous element
\* ranges that, concatenated in order, give back the element list (so their
\* start positions strictly increase), and their indices are 0, 1, 2, ...
C8_SectionsPartitionElements ==
    pc = "enumerate" =>
        /\ Flatten([k \in 1..Len(sections) |-> sections[k].elements]) = elements
        /\ \A k \in 1..Len(sections) :
              /\ sections[k].elements # <<>>
              /\ sections[k].index = k - 1
        /\ (elements # <<>>) => (Len(sections) >= 1 /\ sections[1].index = 0)

C8_Witness ==
    /\ pc = "enumerate"
    /\ Len(sections) = 2
    /\ Len(sections[1].elements) + Len(sections[2].elements) = Len(elements)
    /\ sections[2].title = "RIDER CLAUSES"

\* C9: no clause of the final output has an empty or whitespace-only body: the
\* output holds one clause per raw clause whose body is not blank, and none for
\* a blank one or a failure stub.
C9_NoBlankBodyInOutput ==
    pc = "done" =>
        /\ \A k \in 1..Len(clauses) : ~IsBlank(clauses[k].text)
        /\ Len(clauses) = Cardinality({i \in 1..Len(raw_clauses) :
                                         ~IsBlank(raw_clauses[i].agreed_text)})

C9_Witness ==
    /\ pc = "done"
    /\ \E i \in 1..Len(raw_clauses) : "error" \in DOMAIN raw_clauses[i]
    /\ \E i \in 1..Len(raw_clauses) : raw_clauses[i].agreed_text = "  "
    /\ Len(clauses) >= 1

\* C10: a run whose first two enumeration runs each had an invalid section and
\* whose third had none, and whose extraction answers all have a non-empty
\* body, completes after exactly 3 enumeration runs with one output clause per
\* enumerated number of every section.
C10_ThirdAttemptSucceeds ==
    (/\ pc \in {"done", "failed"}
     /\ run_log = <<TRUE, TRUE, FALSE>>
     /\ \A k \in 1..Len(x_slots) :
           x_slots[k] # <<>> =>
              (x_slots[k][1].kind = "json" /\ ~IsBlank(x_slots[k][1].data.agreed_text))
     /\ \A i \in 1..Len(all_clauses) : ~IsBlank(all_clauses[i].agreed_text))
    => /\ pc = "done"
       /\ enumeration_attempts = 3
       /\ \A k \in 1..Len(sections) : e_numbers[k] # <<>>
       /\ Len(clauses) = SumLen(e_numbers, Len(e_numbers))

\* The positions of the sections among the first n that have clause numbers.
NumberedSectionsUpTo(n) ==
    {k \in 1..n : Get(clause_index, sections[k].title, <<>>) # <<>>}

\* What extraction owes for the logged answers: per finished gather, in the
\* order of the log, the record of each request in the order of the requests.
ExpectedRaw ==
    Flatten([g \in 1..Len(x_answers) |->
        LET section == sections[x_answers[g][1]]
            numbers == clause_index[section.title]
        IN  [j \in 1..Len(numbers) |->
                _extract_single(section, numbers[j], x_answers[g][2][j]).value]])

\* C11: sections are extracted one at a time in section order (the gathers that
\* finished are those of the sections before the current one, in order, and
\* all_clauses holds all of their results and nothing of the section in
\* flight), and once extraction is done the raw clauses and the final clause
\* list are those the oracle answers determine request by request, whatever
\* the order in which the calls completed.
C11_OutputIndependentOfCompletionOrder ==
    /\ pc = "extract" =>
          /\ [g \in 1..Len(x_answers) |-> x_answers[g][1]]
                = Ascending(NumberedSectionsUpTo(x_i))
          /\ Len(all_clauses)
                = SumLen([g \in 1..Len(x_answers) |-> x_answers[g][2]], Len(x_answers))
          /\ x_running =>
                /\ x_i + 1 \in NumberedSectionsUpTo(Len(sections))
                /\ Len(x_slots) = Len(clause_index[sections[x_i + 1].title])
                /\ \E k \in 1..Len(x_slots) : x_slots[k] = <<>>
    /\ pc \in {"assemble", "done"} =>
          /\ [g \in 1..Len(x_answers) |-> x_answers[g][1]]
                = Ascending(NumberedSectionsUpTo(Len(sections)))
          /\ raw_clauses = ExpectedRaw
    /\ pc = "done" => clauses = assemble(ExpectedRaw)

\* The two calls of the last section completed in reverse order, and both of
\* their clauses are in the output.
C11_Witness ==
    /\ pc = "done"
    /\ x_order = <<2, 1>>
    /\ Len(clauses) >= 2
    /\ \A k \in 1..Len(x_slots) : ~IsBlank(x_slots[k][2].value.agreed_text)

\* The 0-based positions at which the sections after the first begin.
SectionStarts ==
    {SumLen([k \in 1..Len(sections) |-> sections[k].elements], n - 1) :
        n \in 2..Len(sections)}

\* The 0-based positions of the non-margin, non-numbered section headers longer
\* than 5 characters that lie after prev_idx and among the 10 elements before
\* curr_idx.
TitleCandidates(els, prev_idx, curr_idx) ==
    {i \in 0..(Len(els) - 1) :
        /\ prev_idx < i
        /\ i < curr_idx
        /\ curr_idx - i <= 10
        /\ els[i + 1].label = "SECTION_HEADER"
        /\ ~els[i + 1].is_margin_note
        /\ _extract_leading_number(els[i + 1].text) = <<>>
        /\ TextLen(els[i + 1].text) > 5}

\* The boundaries owed under a restart rule R: for each pair of consecutive
\* numbered headers that R calls a restart and that has a title candidate, the
\* candidate nearest to the second header.
BoundariesUnder(els, R(_, _)) ==
    LET nh == NumberedHeaders(els)
        cand(j) == TitleCandidates(els, nh[j - 1][1], nh[j][1])
    IN  {CHOOSE i \in cand(j) : \A g \in cand(j) : g <= i :
            j \in {m \in 2..Len(nh) : R(nh[m - 1][2], nh[m][2]) /\ cand(m) # {}}}

RestartWhenNotLess(prev_num, curr_num) == curr_num <= 2 /\ prev_num >= curr_num

RestartWhenGreater(prev_num, curr_num) == curr_num <= 2 /\ prev_num > curr_num

\* Each section after the first is titled by the header it begins with.
TitledByFirstElement ==
    \A n \in 2..Len(sections) : sections[n].title = sections[n].elements[1].text

\* C12 (as claimed): a restart is declared exactly when curr <= 2 and
\* prev >= curr, and it becomes a section boundary exactly when a title
\* candidate lies within the 10 elements before curr and after prev.
C12_RestartWhenPrevNotLess ==
    pc = "enumerate" =>
        /\ SectionStarts = BoundariesUnder(elements, RestartWhenNotLess)
        /\ TitledByFirstElement

\* C12 (amended): a restart is declared exactly when curr <= 2 and prev > curr
\* (equal numbers are no restart), and it becomes a section boundary exactly
\* when a title candidate lies within the 10 elements before curr and after
\* prev; otherwise it is discarded.
C12_RestartWhenPrevGreater ==
    pc = "enumerate" =>
        /\ SectionStarts = BoundariesUnder(elements, RestartWhenGreater)
        /\ TitledByFirstElement

\* A restart accepted on a title that lies exactly 10 elements before curr.
C12_Witness ==
    /\ pc = "enumerate"
    /\ Len(sections) = 2
    /\ Len(sections[2].elements) = 11
    /\ LET nh == NumberedHeaders(elements)
       IN  /\ Len(nh) = 2
           /\ nh[2][1] = Len(elements) - 1
           /\ RestartWhenGreater(nh[1][2], nh[2][2])
           /\ SectionStarts = {nh[2][1] - 10}

\* A restart discarded because its only title lies 11 elements before curr.
C12_DiscardedBeyondLookback ==
    /\ pc = "enumerate"
    /\ Len(sections) = 1
    /\ LET nh == NumberedHeaders(elements)
       IN  /\ Len(nh) = 2
           /\ RestartWhenGreater(nh[1][2], nh[2][2])
           /\ \E i \in 0..(Len(elements) - 1) :
                 /\ IsTitleHeader(elements, i)
                 /\ nh[1][1] < i
                 /\ nh[2][1] - i = 11

====
